---------------------------- MODULE Spec2Model ----------------------------
(***************************************************************************)
(* A model of ponyfmt: the formatting engine of src/src/formatter.rs and   *)
(* the batch driver of src/src/main.rs.                                    *)
(*                                                                         *)
(* Text.  A text (source text, node text, output buffer) is a sequence of  *)
(* atoms.  An atom is a string: the space " ", the newline "\n", or a run  *)
(* of non-whitespace characters that none of the program's character-level*)
(* operations (trim, split(','), strip_prefix('('), starts_with("if "),    *)
(* contains("then"), ends_with("end")) ever looks inside.  Two texts are   *)
(* equal as Rust strings exactly when they are equal as atom sequences.    *)
(*                                                                         *)
(* Trees.  A syntax-tree node is a record                                  *)
(*    [kind, gap, text, kids]                                              *)
(* kind is the tree-sitter kind tag, kids the ordered children, text the   *)
(* atoms of a leaf, and gap the whitespace of the source between the end   *)
(* of the previous sibling and the start of this node.                     *)
(***************************************************************************)
EXTENDS Integers, Sequences, FiniteSets, TLC

VARIABLES
  tree,       \* format_source: the tree parse(input) returns (root source_file)
  opts,       \* format_source: the FormatOptions [indent_width, mode]
  pc,         \* format_source: "call", "format", "done" or "panicked"
  state,      \* the run's FormatterState
  child_idx,  \* source_file arm: position of the children iterator
  prev_kind,  \* source_file arm: prev_kind (NoKind for None)
  result,     \* what format_source returned: [ok, text]
  last,       \* history: the child formatted last, the state before the
              \* iteration (before) and after its blank-line decision (start)
  runs,       \* history: number of format_source calls made on this input
  previous    \* history: what the previous call on this input returned

VARIABLES
  cli,        \* main: the parsed command line [paths, write, check, indent]
  fs,         \* the file system: the text of every regular file
  fs0,        \* history: the file system when the process started
  pony_files, \* main: the paths collect_pony_files gathered
  tasks,      \* the process_file calls of the par_iter, one per element of
              \* pony_files: [at, content, formatted, changed, wrote, result]
  had_change, \* main: had_change
  fold_idx,   \* main: position of the loop over results
  main_pc,    \* main: "start", "workers", "fold" or "exited"
  exit_code,  \* the exit status of the process (-1 while it runs)
  stdout,     \* what was printed to standard output, one entry per write
  stderr      \* what was printed to standard error

fvars == <<tree, pc, state, child_idx, prev_kind, result, last, runs, previous>>
cvars == <<cli, fs, fs0, pony_files, tasks, had_change, fold_idx, main_pc, exit_code, stdout, stderr>>
vars == <<fvars, opts, cvars>>

SP == " "
NL == "\n"

-----------------------------------------------------------------------------
(* Text helpers: what the Rust str methods used by the formatter compute.  *)

IsWs(a) == a = SP \/ a = NL

RECURSIVE TrimStart(_)
TrimStart(t) ==
  IF t = <<>> THEN <<>>
  ELSE IF IsWs(Head(t)) THEN TrimStart(Tail(t)) ELSE t

RECURSIVE TrimEnd(_)
TrimEnd(t) ==
  IF t = <<>> THEN <<>>
  ELSE IF IsWs(t[Len(t)]) THEN TrimEnd(SubSeq(t, 1, Len(t) - 1)) ELSE t

Trim(t) == TrimEnd(TrimStart(t))

\* str::split(sep): the pieces of t between occurrences of the atom sep.
RECURSIVE SplitOn(_, _)
SplitOn(t, sep) ==
  IF \A i \in 1..Len(t) : t[i] # sep THEN <<t>>
  ELSE LET k == CHOOSE i \in 1..Len(t) : t[i] = sep /\ \A j \in 1..(i-1) : t[j] # sep
       IN  <<SubSeq(t, 1, k - 1)>> \o SplitOn(SubSeq(t, k + 1, Len(t)), sep)

\* str::trim_end_matches("end"): strip every trailing "end".
RECURSIVE TrimEndMatches(_, _)
TrimEndMatches(t, a) ==
  IF t # <<>> /\ t[Len(t)] = a THEN TrimEndMatches(SubSeq(t, 1, Len(t) - 1), a) ELSE t

Contains(t, a) == \E i \in 1..Len(t) : t[i] = a

\* str::len(): the byte length of a text.
RECURSIVE ByteLen(_)
ByteLen(t) == IF t = <<>> THEN 0 ELSE Len(Head(t)) + ByteLen(Tail(t))

\* str::lines().count()
LinesCount(t) ==
  IF t = <<>> THEN 0
  ELSE Cardinality({i \in 1..Len(t) : t[i] = NL}) + (IF t[Len(t)] = NL THEN 0 ELSE 1)

RECURSIVE Flatten(_)
Flatten(ss) == IF ss = <<>> THEN <<>> ELSE Head(ss) \o Flatten(Tail(ss))

SelectSeqNonEmpty(ss) == SelectSeq(ss, LAMBDA s : s # <<>>)

Spaces(n) == [i \in 1..n |-> SP]

-----------------------------------------------------------------------------
(* Syntax trees.                                                           *)

Leaf(k, t) == [kind |-> k, gap |-> <<>>, text |-> t, kids |-> <<>>]
Tok(k)     == Leaf(k, <<k>>)
Node(k, c) == [kind |-> k, gap |-> <<>>, text |-> <<>>, kids |-> c]
Gap(g, n)  == [n EXCEPT !.gap = g]

\* node_text: the source bytes from the node's start to its end.
RECURSIVE node_text(_)
node_text(n) ==
  IF n.kids = <<>> THEN n.text
  ELSE Flatten([i \in 1..Len(n.kids) |->
                  (IF i = 1 THEN <<>> ELSE n.kids[i].gap) \o node_text(n.kids[i])])

-----------------------------------------------------------------------------
(* FormatterState and its methods.                                         *)

\* Mutant of FormatterState::new: the buffer of the previous run is reused.
FormatterStateNewShared == state

\* line_starts is a history of the run, not a field of the struct: one entry
\* for every write_text that puts the first text on a line, with the level
\* and the length of the line at that moment.
FormatterStateNew ==
  [output |-> <<>>, indent_level |-> 0, current_line_has_content |-> FALSE,
   line_starts |-> <<>>]

\* The current output line: what follows the last newline of the output.
CurrentLine(out) ==
  LET nls == {k \in DOMAIN out : out[k] = NL}
      from == IF nls = {} THEN 1 ELSE (CHOOSE k \in nls : \A j \in nls : j <= k) + 1
  IN  SubSeq(out, from, Len(out))

write_indent(st, o) ==
  IF ~st.current_line_has_content
  THEN [st EXCEPT !.output = @ \o Spaces(st.indent_level * o.indent_width)]
  ELSE st

write_text(st, text) ==
  [st EXCEPT !.output = @ \o text, !.current_line_has_content = TRUE,
             !.line_starts =
               IF ~st.current_line_has_content /\ text # <<>>
               THEN Append(@, [level |-> st.indent_level,
                               col |-> Len(CurrentLine(st.output))])
               ELSE @]

write_newline(st) ==
  [st EXCEPT !.output = Append(@, NL), !.current_line_has_content = FALSE]

\* Mutant of write_blank_line: the test of current_line_has_content is lost.
write_blank_line_unconditional(st) == write_newline(write_newline(st))

write_blank_line(st) ==
  write_newline(IF st.current_line_has_content THEN write_newline(st) ELSE st)

increase_indent(st) == [st EXCEPT !.indent_level = @ + 1]

\* Mutant of decrease_indent: the guard against level 0 is lost.
decrease_indent_unguarded(st) == [st EXCEPT !.indent_level = @ - 1]

decrease_indent(st) ==
  IF st.indent_level > 0 THEN [st EXCEPT !.indent_level = @ - 1] ELSE st


-----------------------------------------------------------------------------
(* The formatting rules.  format_node(node, pk, gk, st, o) is the state *)
(* after formatting node, whose parent has kind pk and whose grandparent    *)
(* has kind gk ("" when there is none); the two kinds stand for             *)
(* node.parent() and node.parent().parent() of the tree-sitter node.        *)

NoKind == ""

\* usize arithmetic: a value outside the type's range is an overflow panic,
\* and a panicked walk writes nothing more.
UsizeInRange(n) == n >= 0
Running(st) == UsizeInRange(st.indent_level)

format_arguments(node, st, o) ==
  LET full_text == node_text(node)
      c1   == IF full_text # <<>> /\ Head(full_text) = "(" THEN Tail(full_text) ELSE full_text
      c2   == IF c1 # <<>> /\ c1[Len(c1)] = ")" THEN SubSeq(c1, 1, Len(c1) - 1) ELSE c1
      pieces == SplitOn(c2, ",")
      args == SelectSeqNonEmpty([i \in 1..Len(pieces) |-> Trim(pieces[i])])
      body == Flatten([i \in 1..Len(args) |->
                         (IF i > 1 THEN <<",", SP>> ELSE <<>>) \o args[i]])
      \* every write_text call sets current_line_has_content, the buffer
      \* receives the concatenation
  IN  write_text(st, <<"(">> \o body \o <<")">>)

\* is_standalone of the call_expression arm.
is_standalone(pk, gk) ==
  pk = NoKind \/ (pk = "block" /\ gk # NoKind /\ gk # "assignment_expression")

\* needs_blank_line of the source_file arm, for (prev, current_kind).
needs_blank_line(prev, kind) ==
  \/ prev = "block_comment" /\ kind # "block_comment" /\ kind # "line_comment"
  \/ prev = "primitive_definition" /\ kind # "primitive_definition" /\ kind # "line_comment"
  \/ prev = "type_alias" /\ kind # "type_alias" /\ kind # "line_comment"
  \/ prev = "trait_definition" /\ kind # "trait_definition" /\ kind # "line_comment"
  \/ prev = "class_definition" /\ kind # "line_comment"
  \/ prev \in {"class_definition", "trait_definition", "primitive_definition"}
       /\ kind = "line_comment"
  \/ prev = "use_statement" /\ kind # "use_statement" /\ kind # "line_comment"

\* The kinds of the arm that writes nothing ("handled by their parents").
SkippedKinds ==
  {"actor", "class", "trait", "primitive", "new", "fun", "be", "let", "var",
   "embed", "identifier", "parameters", ":", "=>", "val", "ref", "iso", "trn",
   "box", "tag", "(", ")", "=", "if", "then", "end", "is", "capability"}

\* The method arm's test for a body kept on the line of the arrow.
InlineLimit == 50
is_one_liner(trimmed) == LinesCount(trimmed) = 1 /\ ByteLen(trimmed) < InlineLimit

RECURSIVE format_node(_, _, _, _, _)
RECURSIVE format_children(_, _, _, _, _)
RECURSIVE type_child(_, _, _, _, _)
RECURSIVE method_child(_, _, _, _, _)
RECURSIVE constructor_child(_, _, _, _, _)
RECURSIVE if_statement_child(_, _, _, _, _)
RECURSIVE format_then_block(_, _, _, _, _)
RECURSIVE call_child(_, _, _, _, _)
RECURSIVE assignment_child(_, _, _, _, _, _)
RECURSIVE loop(_, _, _, _, _, _)

\* format_node on each child from the i-th on (for child in node.children()).
format_children(node, i, gk, st, o) ==
  loop("format_node", node, i, gk, st, o)

\* One iteration of a cursor loop of the arm named arm, on child.
arm_child(arm, child, i, pk, gk, st, o) ==
  CASE arm = "format_node"   -> format_node(child, pk, gk, st, o)
    [] arm = "type"          -> type_child(child, pk, gk, st, o)
    [] arm = "method"        -> method_child(child, pk, gk, st, o)
    [] arm = "constructor"   -> constructor_child(child, pk, gk, st, o)
    [] arm = "if_statement"  -> if_statement_child(child, pk, gk, st, o)
    [] arm = "then_block"    -> format_then_block(child, pk, gk, st, o)
    [] arm = "call"          -> call_child(child, pk, gk, st, o)
    [] arm = "assignment"    -> assignment_child(child, i, pk, gk, st, o)

\* The loop over the children of node, from the i-th on; gk is the kind of
\* node's parent.
loop(arm, node, i, gk, st, o) ==
  IF i > Len(node.kids) THEN st
  ELSE LET s == arm_child(arm, node.kids[i], i, node.kind, gk, st, o)
       IN  IF Running(s) THEN loop(arm, node, i + 1, gk, s, o) ELSE s

\* actor_definition | class_definition, and trait_definition: one child.
\* (The trait arm has no "is" and no "base_type" case.)
type_child(child, pk, gk, st, o) ==
  LET k == child.kind IN
  CASE (k \in {"actor", "class"} /\ pk # "trait_definition")
         \/ (k = "trait" /\ pk = "trait_definition")
         \/ k = "capability" ->
         write_text(write_text(st, node_text(child)), <<SP>>)
    [] k = "identifier" -> write_text(st, node_text(child))
    [] k = "is" /\ pk # "trait_definition" -> write_text(st, <<SP, "is", SP>>)
    [] k = "base_type" /\ pk # "trait_definition" -> write_text(st, node_text(child))
    [] k = "members" ->
         decrease_indent(
           format_node(child, pk, gk, increase_indent(write_newline(st)), o))
    [] OTHER -> st

\* primitive_definition: one child.
primitive_child(child, st) ==
  CASE child.kind = "primitive" -> write_text(write_text(st, node_text(child)), <<SP>>)
    [] child.kind = "identifier" -> write_text(st, node_text(child))
    [] OTHER -> st

\* type_alias: one child.
type_alias_child(child, st) ==
  CASE child.kind = "identifier" -> write_text(st, node_text(child))
    [] child.kind = "is" -> write_text(st, <<SP, "is", SP>>)
    [] child.kind = "union_type" -> write_text(st, node_text(child))
    [] OTHER -> st

\* field (with_base_type) and field_definition: one child.
field_child(child, with_base_type, st) ==
  LET k == child.kind IN
  CASE k \in {"let", "var", "embed"} -> write_text(write_text(st, node_text(child)), <<SP>>)
    [] k = "identifier" -> write_text(st, node_text(child))
    [] k = ":" -> write_text(st, <<":", SP>>)
    [] k = "base_type" /\ with_base_type -> write_text(st, node_text(child))
    [] k = "=" -> write_text(st, <<SP, "=", SP>>)
    [] OTHER -> write_text(st, node_text(child))

RECURSIVE fold_primitive(_, _, _)
fold_primitive(kids, i, st) ==
  IF i > Len(kids) THEN st
  ELSE LET s == primitive_child(kids[i], st)
       IN  IF Running(s) THEN fold_primitive(kids, i + 1, s) ELSE s

RECURSIVE fold_type_alias(_, _, _)
fold_type_alias(kids, i, st) ==
  IF i > Len(kids) THEN st
  ELSE LET s == type_alias_child(kids[i], st)
       IN  IF Running(s) THEN fold_type_alias(kids, i + 1, s) ELSE s

RECURSIVE fold_field(_, _, _, _)
fold_field(kids, i, wbt, st) ==
  IF i > Len(kids) THEN st
  ELSE LET s == field_child(kids[i], wbt, st)
       IN  IF Running(s) THEN fold_field(kids, i + 1, wbt, s) ELSE s

\* method: one child.
method_child(child, pk, gk, st, o) ==
  LET k == child.kind IN
  CASE k = "fun" -> write_text(write_text(st, node_text(child)), <<SP>>)
    [] k \in {"identifier", "parameters", "base_type"} -> write_text(st, node_text(child))
    [] k = ":" -> write_text(st, <<":", SP>>)
    [] k = "=>" -> write_text(st, <<SP, "=>">>)
    [] k = "block" ->
         LET trimmed == Trim(node_text(child)) IN
         IF is_one_liner(trimmed)
         THEN write_text(write_text(st, <<SP>>), trimmed)
         ELSE decrease_indent(
                format_node(child, pk, gk, increase_indent(write_newline(st)), o))
    [] OTHER -> st

\* constructor | function_definition: one child.
constructor_child(child, pk, gk, st, o) ==
  LET k == child.kind IN
  CASE k \in {"new", "fun", "be"} -> write_text(write_text(st, node_text(child)), <<SP>>)
    [] k \in {"val", "ref", "iso", "trn", "box", "tag"} -> st
    [] k = "capability" -> write_text(write_text(st, node_text(child)), <<SP>>)
    [] k \in {"identifier", "parameters"} -> write_text(st, node_text(child))
    [] k = ":" -> write_text(st, <<":", SP>>)
    [] k = "=>" -> write_text(st, <<SP, "=>">>)
    [] k = "block" ->
         decrease_indent(
           format_node(child, pk, gk, increase_indent(write_newline(st)), o))
    [] OTHER -> write_text(st, node_text(child))

\* format_if_block: one child.
if_block_child(child, st) ==
  CASE child.kind = "if" -> write_text(st, <<"if", SP>>)
    [] child.kind = "block" -> write_text(write_text(st, node_text(child)), <<SP>>)
    [] OTHER -> st

RECURSIVE fold_if_block(_, _, _)
fold_if_block(kids, i, st) ==
  IF i > Len(kids) THEN st
  ELSE LET s == if_block_child(kids[i], st)
       IN  IF Running(s) THEN fold_if_block(kids, i + 1, s) ELSE s

format_if_block(node, st, o) == fold_if_block(node.kids, 1, st)

\* format_then_block: one child (pk = "then_block").
format_then_block(child, pk, gk, st, o) ==
  CASE child.kind = "then" -> write_newline(write_text(st, <<"then">>))
    [] child.kind = "block" ->
         decrease_indent(format_node(child, pk, gk, increase_indent(st), o))
    [] OTHER -> st

\* if_statement: one child.
if_statement_child(child, pk, gk, st, o) ==
  CASE child.kind = "if_block" -> format_if_block(child, st, o)
    [] child.kind = "then_block" -> loop("then_block", child, 1, pk, st, o)
    [] child.kind = "end" ->
         write_newline(write_text(write_indent(st, o), <<"end">>))
    [] OTHER -> st

\* block, the branch for a run of simple assignments: one child; first is
\* the loop's flag.
RECURSIVE fold_simple_assignments(_, _, _, _)
fold_simple_assignments(kids, i, first, st) ==
  IF i > Len(kids) THEN st
  ELSE IF kids[i].kind = "assignment_expression"
       THEN fold_simple_assignments(kids, i + 1, FALSE,
              write_text(IF ~first THEN write_text(st, <<SP>>) ELSE st,
                         node_text(kids[i])))
       ELSE IF kids[i].kind = ";"
            THEN fold_simple_assignments(kids, i + 1, first, write_text(st, <<";">>))
            ELSE fold_simple_assignments(kids, i + 1, first, st)

\* call_expression: one child.
call_child(child, pk, gk, st, o) ==
  CASE child.kind \in {"member_expression", "identifier"} ->
         write_text(st, node_text(child))
    [] child.kind = "arguments" -> format_arguments(child, st, o)
    [] OTHER -> format_node(child, pk, gk, st, o)

\* assignment_expression: the i-th child (first = (i = 1): every case of
\* the loop clears the flag).
assignment_child(child, i, pk, gk, st, o) ==
  LET k == child.kind IN
  CASE k = "variable_declaration" -> write_text(st, node_text(child))
    [] k = "identifier" ->
         write_text(IF i # 1 THEN write_text(st, <<SP>>) ELSE st, node_text(child))
    [] k = "=" -> write_text(st, <<SP, "=", SP>>)
    [] k = "block" ->
         IF Len(child.kids) = 1
            /\ child.kids[1].kind \in {"identifier", "number", "string", "boolean"}
         THEN write_text(st, node_text(child.kids[1]))
         ELSE format_children(child, 1, pk, st, o)
    [] OTHER -> format_node(child, pk, gk, st, o)

\* The ERROR arm.
format_error(node, st, o) ==
  LET text == node_text(node) IN
  IF Len(text) >= 2 /\ text[1] = "if" /\ text[2] = SP /\ Contains(text, "then")
  THEN LET k  == CHOOSE i \in 1..Len(text) :
                   text[i] = "then" /\ \A j \in 1..(i-1) : text[j] # "then"
           p0 == SubSeq(text, 1, k - 1)
           p1 == SubSeq(text, k + 1, Len(text))
           s1 == increase_indent(write_newline(
                   write_text(write_indent(st, o), Trim(p0) \o <<SP, "then">>)))
       IN  IF Trim(p1) # <<>> THEN write_text(write_indent(s1, o), Trim(p1)) ELSE s1
  ELSE IF Trim(text) = <<"end">> \/ (text # <<>> /\ text[Len(text)] = "end")
  THEN LET content == Trim(TrimEndMatches(text, "end"))
           s1 == IF Trim(text) # <<"end">> /\ content # <<>>
                 THEN write_newline(write_text(st, content))
                 ELSE st
       IN  write_newline(write_text(write_indent(decrease_indent(s1), o), <<"end">>))
  ELSE write_newline(write_text(write_indent(st, o), text))

\* One iteration of the source_file arm's loop: the blank-line decision
\* against prev_kind (prev; NoKind for None), then the child.
source_file_child(child, prev, st, o) ==
  LET s1 == IF prev # NoKind /\ needs_blank_line(prev, child.kind)
            THEN write_blank_line(st) ELSE st
  IN  format_node(child, "source_file", NoKind, s1, o)

RECURSIVE source_file_loop(_, _, _, _, _)
source_file_loop(kids, i, prev, st, o) ==
  IF i > Len(kids) THEN st
  ELSE LET s == source_file_child(kids[i], prev, st, o)
       IN  IF Running(s) THEN source_file_loop(kids, i + 1, kids[i].kind, s, o) ELSE s

format_node(node, pk, gk, st, o) ==
  LET k == node.kind IN
  CASE k = "source_file" -> source_file_loop(node.kids, 1, NoKind, st, o)
    [] k \in {"block_comment", "line_comment"} ->
         write_newline(write_text(write_indent(st, o), node_text(node)))
    [] k = "use_statement" ->
         LET s1 == write_text(write_indent(st, o), <<"use", SP>>)
             strs == {i \in 1..Len(node.kids) : node.kids[i].kind = "string"}
         IN  write_newline(
               IF strs = {} THEN s1
               ELSE write_text(s1,
                      node_text(node.kids[CHOOSE i \in strs : \A j \in strs : i <= j])))
    [] k \in {"actor_definition", "class_definition", "trait_definition"} ->
         loop("type", node, 1, pk, write_indent(st, o), o)
    [] k = "primitive_definition" ->
         write_newline(fold_primitive(node.kids, 1, write_indent(st, o)))
    [] k = "type_definition" ->
         LET s1 == write_text(write_indent(st, o), <<"type", SP>>)
             ids == {i \in 1..Len(node.kids) : node.kids[i].kind = "identifier"}
             s2 == IF ids = {} THEN s1
                   ELSE write_text(s1,
                          node_text(node.kids[CHOOSE i \in ids : \A j \in ids : i <= j]))
             iss == {i \in 1..Len(node.kids) : node.kids[i].kind = "is"}
             fi == CHOOSE i \in iss : \A j \in iss : i <= j
             s3 == IF iss = {} THEN s2
                   ELSE LET s == write_text(s2, <<SP, "is", SP>>)
                        IN  IF fi < Len(node.kids)
                            THEN write_text(s, node_text(node.kids[fi + 1]))
                            ELSE s
         IN  write_newline(s3)
    [] k = "type_alias" ->
         write_newline(fold_type_alias(node.kids, 1,
           write_text(write_indent(st, o), <<"type", SP>>)))
    [] k = "members" -> format_children(node, 1, pk, st, o)
    [] k = "field" ->
         write_newline(fold_field(node.kids, 1, TRUE, write_indent(st, o)))
    [] k = "field_definition" ->
         write_newline(fold_field(node.kids, 1, FALSE, write_indent(st, o)))
    [] k = "method" ->
         write_newline(loop("method", node, 1, pk, write_indent(st, o), o))
    [] k \in {"constructor", "function_definition"} ->
         loop("constructor", node, 1, pk, write_indent(st, o), o)
    [] k = "if_statement" ->
         loop("if_statement", node, 1, pk, write_indent(st, o), o)
    [] k = "block" ->
         IF (\A i \in 1..Len(node.kids) :
               node.kids[i].kind \in {"assignment_expression", ";"})
            /\ Len(node.kids) > 2
         THEN write_newline(
                fold_simple_assignments(node.kids, 1, TRUE, write_indent(st, o)))
         ELSE format_children(node, 1, pk, st, o)
    [] k = "call_expression" ->
         LET s1 == IF is_standalone(pk, gk) THEN write_indent(st, o) ELSE st
             s2 == loop("call", node, 1, pk, s1, o)
         IN  IF is_standalone(pk, gk) THEN write_newline(s2) ELSE s2
    [] k = "assignment_expression" ->
         write_newline(loop("assignment", node, 1, pk, write_indent(st, o), o))
    [] k = "variable_declaration" -> st
    [] k = "assignment" ->
         write_newline(write_text(write_indent(st, o), node_text(node)))
    [] k \in SkippedKinds -> st
    [] k = "ERROR" -> format_error(node, st, o)
    [] k = "string" -> write_text(st, node_text(node))
    [] OTHER -> format_children(node, 1, pk, st, o)


\* Mutant of format_source: the calls append to one buffer shared by the
\* workers instead of a buffer of their own.
format_source_shared(root, o) ==
  format_node(root, NoKind, NoKind,
    [FormatterStateNew EXCEPT
       !.output = Flatten([i \in DOMAIN tasks |-> tasks[i].formatted])], o).output

\* format_source after parse has returned tree: the whole walk.
format_source(root, o) == format_node(root, NoKind, NoKind, FormatterStateNew, o).output

-----------------------------------------------------------------------------
(* Inputs: the syntax trees the runs are checked on.                       *)

Id(x)  == Leaf("identifier", <<x>>)
Str(x) == Leaf("string", <<x>>)

SeqsUpTo(S, n) == UNION {[1..k -> S] : k \in 0..n}

\* The children cs laid out with gap g between consecutive ones.
Spread(cs, g) == [i \in 1..Len(cs) |-> IF i = 1 THEN cs[i] ELSE Gap(g, cs[i])]

Modes == {"Stdout", "Write", "Check"}
IndentWidths == {2, 4}
OptsSet == [indent_width : IndentWidths, mode : Modes]
\* The options of the library's callers (tests/formatter.rs, fmt): any
\* width, the mode left at Stdout.
WidthOpts == [indent_width : IndentWidths, mode : {"Stdout"}]

\* Statements of a block.
Args(cs)     == Node("arguments", cs)
ArgsHi       == Args(<<Tok("("), Str("\"Hi\""), Tok(")")>>)
CallPrint    == Node("call_expression",
                  <<Leaf("member_expression", <<"env.out.print">>), ArgsHi>>)
AssignX      == Node("assignment_expression",
                  <<Id("x"), Gap(<<SP>>, Tok("=")),
                    Gap(<<SP>>, Node("block", <<Leaf("number", <<"1">>)>>))>>)
StrStmt      == Str("\"doc\"")
IdStmt       == Id("None")
CondTrue     == Node("block", <<Leaf("boolean", <<"true">>)>>)
Block(cs, g) == Node("block", Spread(cs, g))
IfStmt(cond, body) ==
  Node("if_statement",
    <<Node("if_block", <<Tok("if"), Gap(<<SP>>, cond)>>),
      Gap(<<SP>>, Node("then_block", <<Tok("then"), Gap(<<NL>>, body)>>)),
      Gap(<<NL>>, Tok("end"))>>)
IfPrint      == IfStmt(CondTrue, Block(<<CallPrint>>, <<NL>>))

\* ERROR regions.
ErrIfThen == Node("ERROR", <<Tok("if"), Gap(<<SP>>, Id("cond")), Gap(<<SP>>, Tok("then")),
                             Gap(<<NL>>, Id("body"))>>)
ErrEnd    == Node("ERROR", <<Tok("end")>>)
ErrOther  == Node("ERROR", <<Tok(")"), Gap(<<SP>>, Id("junk"))>>)

\* Members of a type.
Params == Node("parameters", <<Tok("("), Id("env"), Tok(":"),
                               Gap(<<SP>>, Leaf("base_type", <<"Env">>)), Tok(")")>>)
NoParams == Node("parameters", <<Tok("("), Tok(")")>>)
Field == Node("field", <<Tok("let"), Gap(<<SP>>, Id("n")), Tok(":"),
                         Gap(<<SP>>, Leaf("base_type", <<"U32">>))>>)
Ctor(body) == Node("constructor", <<Tok("new"), Gap(<<SP>>, Id("create")), Params,
                                    Gap(<<SP>>, Tok("=>")), Gap(<<NL>>, body)>>)
CtorNoBody == Node("constructor", <<Tok("new"), Gap(<<SP>>, Id("create")), NoParams>>)
Behavior(body) == Node("function_definition", <<Tok("be"), Gap(<<SP>>, Id("run")), NoParams,
                                    Gap(<<SP>>, Tok("=>")), Gap(<<NL>>, body)>>)
Method(body) == Node("method", <<Tok("fun"), Gap(<<SP>>, Id("get")), NoParams, Tok(":"),
                                 Gap(<<SP>>, Leaf("base_type", <<"U32">>)),
                                 Gap(<<SP>>, Tok("=>")), Gap(<<SP>>, body)>>)
Members(ms, g) == Node("members", Spread(ms, g))

\* Top-level declarations.
TypeDef(kw, name, members) ==
  Node(kw \o "_definition",
       <<Tok(kw), Gap(<<SP>>, Id(name))>>
         \o (IF members.kids = <<>> THEN <<>> ELSE <<Gap(<<NL>>, members)>>))
NoMembers    == Members(<<>>, <<>>)
UseA         == Node("use_statement", <<Tok("use"), Gap(<<SP>>, Str("\"a\""))>>)
UseAlias     == Node("use_statement", <<Tok("use"), Gap(<<SP>>, Id("t")), Gap(<<SP>>, Tok("=")),
                                        Gap(<<SP>>, Str("\"time\""))>>)
BlockComment == Leaf("block_comment", <<"/*c*/">>)
LineComment  == Leaf("line_comment", <<"//c">>)
Primitive    == Node("primitive_definition", <<Tok("primitive"), Gap(<<SP>>, Id("P"))>>)
TypeAlias    == Node("type_alias", <<Tok("type"), Gap(<<SP>>, Id("T")), Gap(<<SP>>, Tok("is")),
                                     Gap(<<SP>>, Leaf("union_type", <<"(A|B)">>))>>)
Trait        == TypeDef("trait", "T", NoMembers)
ClassEmpty   == TypeDef("class", "C", NoMembers)
ClassField   == TypeDef("class", "C", Members(<<Field>>, <<NL>>))
ActorMain    == TypeDef("actor", "Main", Members(<<Ctor(Block(<<CallPrint>>, <<NL>>))>>, <<NL>>))
\* A kind format_node has no rule for.
Interface    == Node("interface_definition",
                  <<Tok("interface"), Gap(<<SP>>, Id("I")),
                    Gap(<<NL>>, Members(<<Field>>, <<NL>>))>>)

SourceFile(cs, g) == Node("source_file", Spread(cs, g))

MaxTop == 2
TopNodes ==
  {UseA, UseAlias, BlockComment, LineComment, Primitive, TypeAlias, Trait,
   ClassEmpty, ClassField, ActorMain, Interface, IfPrint, ErrIfThen, ErrEnd, ErrOther}
TopTrees == {SourceFile(cs, <<NL>>) : cs \in SeqsUpTo(TopNodes, MaxTop)}

-----------------------------------------------------------------------------
(* The run of format_source as a state machine: the call, one step per     *)
(* iteration of the source_file arm's loop, the return.                     *)

NoNode == Leaf(NoKind, <<>>)
NoResult == [ok |-> FALSE, text |-> <<>>]
NoState ==
  [output |-> <<>>, indent_level |-> 0, current_line_has_content |-> FALSE,
   line_starts |-> <<>>]
NoLast == [node |-> NoNode, before |-> NoState, start |-> NoState]

NoArgs == [paths |-> <<>>, write |-> FALSE, check |-> FALSE, indent |-> 2]
CliIdle ==
  /\ cli = NoArgs
  /\ fs = <<>>
  /\ fs0 = <<>>
  /\ pony_files = <<>>
  /\ tasks = <<>>
  /\ had_change = FALSE
  /\ fold_idx = 0
  /\ main_pc = "idle"
  /\ exit_code = -1
  /\ stdout = <<>>
  /\ stderr = <<>>

InitWith(T, O) ==
  /\ tree \in T
  /\ opts \in O
  /\ pc = "call"
  /\ state = NoState
  /\ child_idx = 0
  /\ prev_kind = NoKind
  /\ result = NoResult
  /\ last = NoLast
  /\ runs = 0
  /\ previous = NoResult
  /\ CliIdle

\* format_source: parse returned the tree; a fresh FormatterState.
Call ==
  /\ pc = "call"
  /\ pc' = "format"
  /\ state' = FormatterStateNew
  /\ child_idx' = 1
  /\ prev_kind' = NoKind
  /\ last' = NoLast
  /\ runs' = runs + 1
  /\ UNCHANGED <<tree, opts, result, previous>>
  /\ UNCHANGED cvars

\* format_source: parse(input)? returned an error.
ParseFail ==
  /\ pc = "call"
  /\ pc' = "done"
  /\ result' = [ok |-> FALSE, text |-> <<>>]
  /\ runs' = runs + 1
  /\ UNCHANGED <<tree, opts, state, child_idx, prev_kind, last, previous>>
  /\ UNCHANGED cvars

\* source_file arm: one iteration of the loop over the root's children.
FormatChild ==
  /\ pc = "format"
  /\ child_idx <= Len(tree.kids)
  /\ LET child == tree.kids[child_idx]
         s1 == IF prev_kind # NoKind /\ needs_blank_line(prev_kind, child.kind)
               THEN write_blank_line(state) ELSE state
         s2 == source_file_child(child, prev_kind, state, opts)
     IN  /\ state' = s2
         /\ last' = [node |-> child, before |-> state, start |-> s1]
         /\ prev_kind' = child.kind
         /\ pc' = IF Running(s2) THEN "format" ELSE "panicked"
  /\ child_idx' = child_idx + 1
  /\ UNCHANGED <<tree, opts, result, runs, previous>>
  /\ UNCHANGED cvars

\* format_source: the walk is over, Ok(state.output).
Return ==
  /\ pc = "format"
  /\ child_idx > Len(tree.kids)
  /\ pc' = "done"
  /\ result' = [ok |-> TRUE, text |-> state.output]
  /\ UNCHANGED <<tree, opts, state, child_idx, prev_kind, last, runs, previous>>
  /\ UNCHANGED cvars

Next == Call \/ ParseFail \/ FormatChild \/ Return

Init == InitWith(TopTrees, OptsSet)
Spec == Init /\ [][Next]_vars


\* A further call of format_source on the same input, under any mode.
MaxRuns == 2
Again ==
  /\ pc = "done"
  /\ runs < MaxRuns
  /\ pc' = "call"
  /\ previous' = result
  /\ opts' \in {[opts EXCEPT !.mode = m] : m \in Modes}
  /\ UNCHANGED <<tree, state, child_idx, prev_kind, result, last, runs>>
  /\ UNCHANGED cvars

RerunNodes == {UseA, ClassField, ActorMain, Interface, IfPrint, ErrIfThen, ErrEnd}
RerunTrees == {SourceFile(cs, <<NL>>) : cs \in SeqsUpTo(RerunNodes, MaxTop)}

NextRerun == Next \/ Again
SpecRerun == InitWith(RerunTrees, OptsSet) /\ [][NextRerun]_vars

-----------------------------------------------------------------------------
(* Properties of a run.                                                    *)

NonWs(t) == SelectSeq(t, LAMBDA a : ~IsWs(a))

RECURSIVE HasKind(_, _)
HasKind(n, k) == n.kind = k \/ \E i \in 1..Len(n.kids) : HasKind(n.kids[i], k)

WellFormed(n) == ~HasKind(n, "ERROR")

\* The number of newlines a text ends with.
RECURSIVE TrailingNewlines(_)
TrailingNewlines(t) ==
  IF t # <<>> /\ t[Len(t)] = NL THEN 1 + TrailingNewlines(SubSeq(t, 1, Len(t) - 1)) ELSE 0

Returned == pc = "done" /\ result.ok

\* The text the last iteration's child wrote.
Emitted == SubSeq(state.output, Len(last.start.output) + 1, Len(state.output))

\* C1: every step of a run on a tree the parser returned either moves the
\* walk on to the next child (so the walk is over after Len(tree.kids) steps)
\* or returns Ok; no step panics or returns an error.
Totality ==
  [][pc = "format" =>
       \/ pc' = "format" /\ child_idx <= Len(tree.kids) /\ child_idx' = child_idx + 1
       \/ pc' = "done" /\ result'.ok]_vars

TotalityWitness ==
  /\ Returned
  /\ \E i \in 1..Len(tree.kids) : tree.kids[i].kind = "ERROR"
  /\ \E i \in 1..Len(tree.kids) : tree.kids[i].kind = "interface_definition"

\* C2: the text format_source returns ends with exactly one newline.
TrailingNewline == Returned => TrailingNewlines(result.text) = 1

\* C3: for a tree without ERROR nodes, the non-whitespace tokens of the
\* returned text are the leaf tokens of the input, in order.
TokenPreservation ==
  Returned /\ WellFormed(tree) => NonWs(result.text) = NonWs(node_text(tree))

\* C4: a later call on the same input returns the text the previous call
\* returned, whatever the mode of either call.
Determinism ==
  Returned /\ runs >= 2 /\ previous.ok => result.text = previous.text

DeterminismWitness ==
  /\ Returned /\ runs >= 2 /\ previous.ok
  /\ result.text # <<>>
  /\ Len(tree.kids) = 2

\* C8: between two consecutive children of the source file for which the
\* claim forces a blank line, exactly one empty line separates the outputs.
ForcedBlank(prev, cur) ==
  \/ prev = "block_comment" /\ cur \notin {"block_comment", "line_comment"}
  \/ prev \in {"primitive_definition", "type_alias", "trait_definition"}
       /\ cur # prev /\ cur # "line_comment"
  \/ prev = "class_definition"
  \/ prev = "use_statement" /\ cur \notin {"use_statement", "block_comment", "line_comment"}

SiblingPair == pc = "format" /\ child_idx > 2

PrevSibling == tree.kids[child_idx - 2]

OneBlankLineBefore ==
  /\ last.before.output # <<>>
  /\ TrailingNewlines(last.start.output) = 2
  /\ Emitted # <<>> => Head(Emitted) # NL

-----------------------------------------------------------------------------
(* Types and their members (C5).                                           *)

CallNested   == Node("call_expression",
                  <<Leaf("member_expression", <<"env.err.print">>), ArgsHi>>)
IfNested     == IfStmt(CondTrue, Block(<<CallNested>>, <<NL>>))
OneLiner     == Block(<<Leaf("number", <<"7">>)>>, <<>>)

MaxStmts == 2
MaxMembers == 2
BodyStmts == {CallPrint, AssignX, StrStmt, IdStmt, IfNested}
StmtGaps == {<<NL>>, <<NL, SP, SP, SP>>}
BodyBlocks ==
  {Block(<<c>>, <<NL>>) : c \in BodyStmts} \cup {Block(<<CallPrint, AssignX>>, <<NL>>)}
MemberNodes ==
  {Field, CtorNoBody, Method(OneLiner), Behavior(Block(<<CallPrint>>, <<NL>>))}
    \cup {Ctor(b) : b \in BodyBlocks}
MemberTrees ==
  {SourceFile(<<TypeDef(kw, "Main", Members(ms, g))>>, <<NL>>) :
     kw \in {"actor", "class"},
     ms \in SeqsUpTo(MemberNodes, MaxMembers) \ {<<>>},
     g \in {<<NL>>}}

SpecMembers == InitWith(MemberTrees, WidthOpts) /\ [][Next]_vars

\* The indentation of the line position p of text t starts: the number of
\* spaces between the line's start and p, or -1 when something else
\* precedes p on its line.
LineIndent(t, p) ==
  LET nls == {q \in 1..(p - 1) : t[q] = NL}
      ls  == IF nls = {} THEN 0 ELSE CHOOSE q \in nls : \A r \in nls : r <= q
  IN  IF \A i \in (ls + 1)..(p - 1) : t[i] = SP THEN p - 1 - ls ELSE -1

Occurrences(t, toks) == {p \in 1..Len(t) : t[p] \in toks}

MemberStarts == {"let", "new", "fun", "be"}
CtorStmtStarts == {"env.out.print", "x", "\"doc\"", "None", "if"}

\* C5: in the text returned for an actor or a class at level 0, every member
\* starts a line at level 1 and every statement of a constructor's (or
\* behavior's) block body starts a line at level 2.
NestedIndentation ==
  Returned /\ Len(tree.kids) = 1
           /\ tree.kids[1].kind \in {"actor_definition", "class_definition"} =>
    /\ \A p \in Occurrences(result.text, MemberStarts) :
         LineIndent(result.text, p) = opts.indent_width
    /\ \A p \in Occurrences(result.text, CtorStmtStarts) :
         LineIndent(result.text, p) = 2 * opts.indent_width

-----------------------------------------------------------------------------
(* Conditionals (C6).                                                      *)

\* An unterminated conditional without a body: leaves the level raised by
\* one and the line empty.
ErrIfOpen == Node("ERROR", <<Tok("if"), Gap(<<SP>>, Id("cond")), Gap(<<SP>>, Tok("then"))>>)
CondAnd(g) == Node("block", <<Node("binary_expression",
                 <<Id("a"), Gap(<<SP>>, Tok("and")), Gap(g, Id("b"))>>)>>)
IfConds == {CondTrue, CondAnd(<<SP>>)}
IfBodyStmts == {CallPrint, AssignX, StrStmt}
MaxLevel == 2
IfTrees ==
  {SourceFile(pre \o <<IfStmt(c, Block(cs, g))>>, <<NL>>) :
     pre \in SeqsUpTo({ErrIfOpen}, MaxLevel),
     c \in IfConds,
     cs \in SeqsUpTo(IfBodyStmts, MaxStmts) \ {<<>>},
     g \in StmtGaps}

SpecIf == InitWith(IfTrees, WidthOpts) /\ [][Next]_vars

\* The one-line rendering the layout rules give a statement.
StmtLine(n) ==
  CASE n = CallPrint -> <<"env.out.print", "(", "\"Hi\"", ")">>
    [] n = AssignX   -> <<"x", SP, "=", SP, "1">>
    [] OTHER         -> Trim(node_text(n))

\* The layout of C6 for the conditional node at level L under width w.
IfLayout(node, L, w) ==
  LET cond == node.kids[1].kids[2]
      body == node.kids[2].kids[2]
  IN  Spaces(L * w) \o <<"if", SP>> \o Trim(node_text(cond)) \o <<SP, "then", NL>>
        \o Flatten([i \in 1..Len(body.kids) |->
                      Spaces((L + 1) * w) \o StmtLine([body.kids[i] EXCEPT !.gap = <<>>])
                        \o <<NL>>])
        \o Spaces(L * w) \o <<"end", NL>>

IfFormatted == pc = "format" /\ last.node.kind = "if_statement"

\* C6: an if_statement formatted at level L comes out as `if <cond> then`
\* on a line at level L, the body at level L+1, `end` on a line of its own
\* at level L, and the level is L again afterwards.
ConditionalLayout ==
  IfFormatted =>
    /\ Emitted = IfLayout(last.node, last.start.indent_level, opts.indent_width)
    /\ state.indent_level = last.start.indent_level

-----------------------------------------------------------------------------
(* Argument lists (C7).                                                    *)

BinExpr(g) == Node("binary_expression", <<Id("a"), Gap(<<SP>>, Tok("+")), Gap(g, Id("b"))>>)
ArgExprs == {Id("p"), Str("\"q\""), BinExpr(<<SP>>), BinExpr(<<NL, SP, SP>>)}
ArgGaps == {<<>>, <<SP>>, <<NL, SP, SP>>}
MaxArgs == 2

\* ( e1 , e2 ... ) with gap g before every expression and h before every
\* comma and the closing parenthesis.
ArgList(es, g, h) ==
  Args(<<Tok("(")>>
       \o Flatten([i \in 1..Len(es) |->
            (IF i > 1 THEN <<Gap(h, Tok(","))>> ELSE <<>>) \o <<Gap(g, es[i])>>])
       \o <<Gap(h, Tok(")"))>>)
ArgLists == {ArgList(es, g, h) : es \in SeqsUpTo(ArgExprs, MaxArgs), g \in ArgGaps, h \in ArgGaps}
CallF(args) == Node("call_expression", <<Id("f"), args>>)
ArgTrees == {SourceFile(<<CallF(a)>>, <<NL>>) : a \in ArgLists}

SpecArgs == InitWith(ArgTrees, WidthOpts) /\ [][Next]_vars

\* The argument expressions of an arguments node, in order.
ArgNodes(a) == SelectSeq(a.kids, LAMBDA c : c.kind \notin {"(", ",", ")"})

JoinArgs(es) ==
  <<"(">> \o Flatten([i \in 1..Len(es) |->
                        (IF i > 1 THEN <<",", SP>> ELSE <<>>) \o Trim(node_text(es[i]))])
          \o <<")">>

CallFormatted ==
  pc = "format" /\ last.node.kind = "call_expression" /\ Len(last.node.kids) = 2

\* The text format_arguments wrote for the call formatted last.
ArgsEmitted == Tail(Emitted)

\* C7: format_arguments writes ( + the arguments joined by ", " + ) on one
\* line: no newline, no whitespace inside the parentheses, no empty
\* argument, the arguments in order and stripped.
ArgumentFlattening ==
  CallFormatted =>
    /\ ~Contains(ArgsEmitted, NL)
    /\ ArgsEmitted = JoinArgs(ArgNodes(last.node.kids[2]))

-----------------------------------------------------------------------------
(* The command line tool (main.rs): fmt collects the .pony files under its *)
(* targets, runs process_file on each of them on the rayon pool, folds the *)
(* results and exits.                                                      *)

\* The directory tree the runs are checked on: "." holds b.pony and the
\* directory d, which holds a.pony and n.txt.
PonyPaths == {"d/a.pony", "b.pony"}
TargetPaths == {".", "d", "d/a.pony", "b.pony", "d/n.txt"}
is_file(p) == p \in PonyPaths \cup {"d/n.txt"}
extension(p) == IF p \in PonyPaths THEN "pony" ELSE IF p = "d/n.txt" THEN "txt" ELSE ""
\* The regular files WalkDir yields under a directory.
WalkDir(p) ==
  IF p = "." THEN <<"b.pony", "d/a.pony", "d/n.txt">>
  ELSE IF p = "d" THEN <<"d/a.pony", "d/n.txt">>
  ELSE <<>>

SelectPony(ps) == SelectSeq(ps, LAMBDA p : is_file(p) /\ extension(p) = "pony")

collect_pony_files(path, out) ==
  IF is_file(path)
    THEN IF extension(path) = "pony" THEN Append(out, path) ELSE out
    ELSE out \o SelectPony(WalkDir(path))

RECURSIVE collect_all(_, _, _)
collect_all(targets, i, out) ==
  IF i > Len(targets) THEN out
  ELSE collect_all(targets, i + 1, collect_pony_files(targets[i], out))

\* The files' texts and the trees parse returns for them.  ActorFormatted
\* is ActorMain as the formatter lays it out at width 2.
ActorFormatted ==
  Node("actor_definition",
    <<Tok("actor"), Gap(<<SP>>, Id("Main")),
      Gap(<<NL, SP, SP>>,
          Node("members",
            <<Node("constructor",
                <<Tok("new"), Gap(<<SP>>, Id("create")), Params, Gap(<<SP>>, Tok("=>")),
                  Gap(<<NL, SP, SP, SP, SP>>, Block(<<CallPrint>>, <<NL>>))>>)>>))>>)
FileText(root) == IF root.kids = <<>> THEN <<>> ELSE node_text(root) \o <<NL>>
FileTrees ==
  {SourceFile(<<>>, <<NL>>), SourceFile(<<UseA>>, <<NL>>),
   SourceFile(<<ActorMain>>, <<NL>>), SourceFile(<<ActorFormatted>>, <<NL>>)}
InitialTexts ==
  {FileText(SourceFile(<<UseA>>, <<NL>>)), FileText(SourceFile(<<ActorMain>>, <<NL>>))}

\* parser::parse on the texts above.
parse(input) == CHOOSE t \in FileTrees : FileText(t) = input

mode_of(write, check) ==
  IF write THEN "Write" ELSE IF check THEN "Check" ELSE "Stdout"

Ok(changed) == [ok |-> TRUE, changed |-> changed, error |-> ""]
\* Mutant of Err: a failure is handed on as a result that counts as a change.
ErrAsChange(e) == [ok |-> TRUE, changed |-> TRUE, error |-> e]
Err(e)      == [ok |-> FALSE, changed |-> FALSE, error |-> e]
NoOutcome   == [ok |-> FALSE, changed |-> FALSE, error |-> "pending"]

NewTask(path) ==
  [path |-> path, at |-> "start", content |-> <<>>, formatted |-> <<>>,
   changed |-> FALSE, wrote |-> 0, result |-> NoOutcome]

Finished(t) == t.at = "done"

\* main up to the par_iter: the mode, the options and the collected files.
Main ==
  /\ main_pc = "start"
  /\ IF cli.write /\ cli.check
       THEN /\ main_pc' = "exited"
            /\ exit_code' = 1
            /\ stderr' = Append(stderr, "--write and --check are mutually exclusive")
            /\ UNCHANGED <<opts, pony_files, tasks>>
       ELSE LET targets == IF cli.paths = <<>> THEN <<".">> ELSE cli.paths
                files == collect_all(targets, 1, <<>>)
            IN  /\ opts' = [indent_width |-> cli.indent,
                            mode |-> mode_of(cli.write, cli.check)]
                /\ pony_files' = files
                /\ tasks' = [i \in 1..Len(files) |-> NewTask(files[i])]
                /\ main_pc' = "workers"
                /\ UNCHANGED <<exit_code, stderr>>
  /\ UNCHANGED <<cli, fs0, fs, had_change, fold_idx, stdout>>
  /\ UNCHANGED fvars

\* What process_file does after it has computed changed.
after_format_always_write(mode, changed) ==
  IF mode = "Stdout" THEN "print_header"
  ELSE IF mode = "Write" THEN "write"
  ELSE "done"
after_format(mode, changed) ==
  IF mode = "Stdout" THEN "print_header"
  ELSE IF mode = "Write" /\ changed THEN "write"
  ELSE "done"

\* process_file: fs::read_to_string, format_source and the comparison.
ReadAndFormat(i) ==
  /\ main_pc = "workers"
  /\ i \in DOMAIN tasks
  /\ tasks[i].at = "start"
  /\ \E content \in {fs[tasks[i].path]} :
       \E root \in {parse(content)} :
         \E formatted \in {format_source(root, opts)} :
           LET changed == formatted /= content
               next == after_format(opts.mode, changed)
           IN  tasks' = [tasks EXCEPT ![i] =
                           [@ EXCEPT !.content = content, !.formatted = formatted,
                                     !.changed = changed, !.at = next,
                                     !.result = IF next = "done" THEN Ok(changed) ELSE @]]
  /\ UNCHANGED <<cli, fs0, fs, pony_files, had_change, fold_idx, main_pc, exit_code, stdout, stderr>>
  /\ UNCHANGED <<fvars, opts>>

\* process_file: fs::read_to_string fails.
ReadFail(i) ==
  /\ main_pc = "workers"
  /\ i \in DOMAIN tasks
  /\ tasks[i].at = "start"
  /\ tasks' = [tasks EXCEPT ![i] = [@ EXCEPT !.at = "done", !.result = Err("read")]]
  /\ UNCHANGED <<cli, fs0, fs, pony_files, had_change, fold_idx, main_pc, exit_code, stdout, stderr>>
  /\ UNCHANGED <<fvars, opts>>

\* process_file: format_source returns the parser's error.
FormatFail(i) ==
  /\ main_pc = "workers"
  /\ i \in DOMAIN tasks
  /\ tasks[i].at = "start"
  /\ tasks' = [tasks EXCEPT ![i] =
                 [@ EXCEPT !.content = fs[tasks[i].path], !.at = "done",
                           !.result = Err("parse")]]
  /\ UNCHANGED <<cli, fs0, fs, pony_files, had_change, fold_idx, main_pc, exit_code, stdout, stderr>>
  /\ UNCHANGED <<fvars, opts>>

\* process_file, Mode::Stdout: the println! of the header.
PrintHeader(i) ==
  /\ i \in DOMAIN tasks
  /\ tasks[i].at = "print_header"
  /\ stdout' = Append(stdout, [by |-> i, what |-> "header", text |-> <<tasks[i].path>>])
  /\ tasks' = [tasks EXCEPT ![i] = [@ EXCEPT !.at = "print_body"]]
  /\ UNCHANGED <<cli, fs0, fs, pony_files, had_change, fold_idx, main_pc, exit_code, stderr>>
  /\ UNCHANGED <<fvars, opts>>

\* process_file, Mode::Stdout: the print! of the formatted text.
PrintBody(i) ==
  /\ i \in DOMAIN tasks
  /\ tasks[i].at = "print_body"
  /\ stdout' = Append(stdout, [by |-> i, what |-> "body", text |-> tasks[i].formatted])
  /\ tasks' = [tasks EXCEPT ![i] = [@ EXCEPT !.at = "done", !.result = Ok(tasks[i].changed)]]
  /\ UNCHANGED <<cli, fs0, fs, pony_files, had_change, fold_idx, main_pc, exit_code, stderr>>
  /\ UNCHANGED <<fvars, opts>>

\* process_file, Mode::Write: fs::write succeeds.
WriteFile(i) ==
  /\ i \in DOMAIN tasks
  /\ tasks[i].at = "write"
  /\ fs' = [fs EXCEPT ![tasks[i].path] = tasks[i].formatted]
  /\ tasks' = [tasks EXCEPT ![i] =
                 [@ EXCEPT !.at = "done", !.wrote = @ + 1, !.result = Ok(tasks[i].changed)]]
  /\ UNCHANGED <<cli, fs0, pony_files, had_change, fold_idx, main_pc, exit_code, stdout, stderr>>
  /\ UNCHANGED <<fvars, opts>>

\* process_file, Mode::Write: fs::write fails and leaves the file alone.
WriteFail(i) ==
  /\ i \in DOMAIN tasks
  /\ tasks[i].at = "write"
  /\ tasks' = [tasks EXCEPT ![i] = [@ EXCEPT !.at = "done", !.result = Err("write")]]
  /\ UNCHANGED <<cli, fs0, fs, pony_files, had_change, fold_idx, main_pc, exit_code, stdout, stderr>>
  /\ UNCHANGED <<fvars, opts>>

\* main: one iteration of the loop over the collected results.
fold_last_wins(had, r) == r.changed
fold_had_change(had, r) == had \/ r.changed

FoldResult ==
  /\ main_pc = "workers"
  /\ \A i \in DOMAIN tasks : Finished(tasks[i])
  /\ fold_idx < Len(tasks)
  /\ LET r == tasks[fold_idx + 1].result
     IN  IF r.ok
           THEN /\ had_change' = fold_had_change(had_change, r)
                /\ UNCHANGED stderr
           ELSE /\ stderr' = Append(stderr, r.error)
                /\ UNCHANGED had_change
  /\ fold_idx' = fold_idx + 1
  /\ UNCHANGED <<cli, fs0, fs, pony_files, tasks, main_pc, exit_code, stdout>>
  /\ UNCHANGED <<fvars, opts>>

\* main: the exit status.
Exit ==
  /\ main_pc = "workers"
  /\ \A i \in DOMAIN tasks : Finished(tasks[i])
  /\ fold_idx = Len(tasks)
  /\ exit_code' = IF opts.mode = "Check" /\ had_change THEN 1 ELSE 0
  /\ main_pc' = "exited"
  /\ UNCHANGED <<cli, fs0, fs, pony_files, tasks, had_change, fold_idx, stdout, stderr>>
  /\ UNCHANGED <<fvars, opts>>

MaxFiles == 2

InitCli ==
  /\ tree = NoNode
  /\ opts = [indent_width |-> 2, mode |-> "Stdout"]
  /\ pc = "idle"
  /\ state = NoState
  /\ child_idx = 0
  /\ prev_kind = NoKind
  /\ result = NoResult
  /\ last = NoLast
  /\ runs = 0
  /\ previous = NoResult
  /\ cli \in {a \in [paths : SeqsUpTo(TargetPaths, MaxFiles), write : BOOLEAN,
                    check : BOOLEAN, indent : {2}] :
                Len(collect_all(IF a.paths = <<>> THEN <<".">> ELSE a.paths, 1, <<>>))
                  <= MaxFiles}
  /\ fs \in [PonyPaths -> InitialTexts]
  /\ fs0 = fs
  /\ pony_files = <<>>
  /\ tasks = <<>>
  /\ had_change = FALSE
  /\ fold_idx = 0
  /\ main_pc = "start"
  /\ exit_code = -1
  /\ stdout = <<>>
  /\ stderr = <<>>

NextCli ==
  \/ Main
  \/ \E i \in 1..Len(pony_files) : ReadAndFormat(i)
  \/ \E i \in 1..Len(pony_files) : ReadFail(i)
  \/ \E i \in 1..Len(pony_files) : FormatFail(i)
  \/ \E i \in 1..Len(pony_files) : PrintHeader(i)
  \/ \E i \in 1..Len(pony_files) : PrintBody(i)
  \/ \E i \in 1..Len(pony_files) : WriteFile(i)
  \/ \E i \in 1..Len(pony_files) : WriteFail(i)
  \/ FoldResult
  \/ Exit

SpecCli == InitCli /\ [][NextCli]_vars

\* C9: a call of process_file has written its file exactly when it ran in
\* Write mode and the text it formatted differs from the content it read;
\* in every other case (Stdout, Check, unchanged text, a failed read or
\* parse) it has not written.  A call is settled once it has left the
\* comparison: it is at "write" only on its way to fs::write.
WriteIffChanged ==
  \A i \in DOMAIN tasks :
    LET t == tasks[i]
        due == opts.mode = "Write" /\ t.result.error /= "read"
               /\ t.result.error /= "parse" /\ t.formatted /= t.content
    IN  /\ t.wrote <= 1
        /\ (t.wrote = 1 \/ t.at = "write" \/ t.result.error = "write") => due
        /\ (Finished(t) /\ due) => (t.wrote = 1 \/ t.result.error = "write")
        /\ (t.wrote = 1 /\ \A j \in DOMAIN tasks : tasks[j].path = t.path => j = i)
             => fs[t.path] = t.formatted

WriteIffChangedWitness ==
  \E i, j \in DOMAIN tasks :
    /\ opts.mode = "Write"
    /\ tasks[i].wrote = 1 /\ tasks[i].formatted /= tasks[i].content
    /\ Finished(tasks[j]) /\ tasks[j].result.ok /\ tasks[j].wrote = 0
    /\ tasks[j].formatted = tasks[j].content

\* C10: when the process has exited from a Check run in which some
\* process_file call returned Ok(true), its formatted text differing from
\* the content, the exit status is non-zero, whatever the other calls
\* returned.
CheckExitStatus ==
  (main_pc = "exited" /\ opts.mode = "Check" /\ ~(cli.write /\ cli.check)
   /\ \E i \in DOMAIN tasks :
        tasks[i].result.ok /\ tasks[i].formatted /= tasks[i].content)
    => exit_code /= 0

CheckExitStatusWitness ==
  /\ main_pc = "exited"
  /\ opts.mode = "Check"
  /\ exit_code = 1
  /\ \E i, j \in DOMAIN tasks :
       /\ i < j
       /\ tasks[i].result.ok /\ tasks[i].formatted /= tasks[i].content
       /\ ~tasks[j].result.changed

-----------------------------------------------------------------------------
(* The batch as a whole.                                                   *)

Succeeded(t) == Finished(t) /\ t.result.error = ""
Failed(t) == Finished(t) /\ t.result.error /= ""
Bailed == cli.write /\ cli.check

\* C11: a process_file call that fails (read, parse or write error) never
\* aborts the batch: when the process has exited every collected file has
\* been processed to its end, every failure has been reported exactly once
\* on standard error, every call that succeeded returned its own changed
\* flag, had_change is the disjunction of the flags of the calls that
\* succeeded, and the exit status is computed from it as usual.
ErrorIsolation ==
  (main_pc = "exited" /\ ~Bailed) =>
    /\ \A i \in DOMAIN tasks : Finished(tasks[i])
    /\ \A i \in DOMAIN tasks :
         Succeeded(tasks[i]) =>
           /\ tasks[i].result.ok
           /\ tasks[i].result.changed = (tasks[i].formatted /= tasks[i].content)
    /\ had_change = (\E i \in DOMAIN tasks :
                       Succeeded(tasks[i]) /\ tasks[i].formatted /= tasks[i].content)
    /\ Len(stderr) = Cardinality({i \in DOMAIN tasks : Failed(tasks[i])})
    /\ exit_code = IF opts.mode = "Check" /\ had_change THEN 1 ELSE 0

ErrorIsolationWitness ==
  /\ main_pc = "exited"
  /\ ~Bailed
  /\ \E i, j \in DOMAIN tasks :
       /\ i < j
       /\ tasks[i].result.error \in {"read", "parse"}
       /\ Succeeded(tasks[j])
       /\ tasks[j].formatted /= tasks[j].content
  /\ had_change
  /\ Len(stderr) = 1

Distinct(ps) == \A i, j \in DOMAIN ps : ps[i] = ps[j] => i = j
\* A call has read and formatted its file.
Loaded(t) == t.at /= "start" /\ t.result.error \notin {"read", "parse"}
\* What process_file computes for the file at path when it runs alone on
\* the file system the process started with.
AloneFormatted(path) == format_source(parse(fs0[path]), opts)
AloneChanged(path) == AloneFormatted(path) /= fs0[path]

\* C12: when the collected files are distinct, every call that has read and
\* formatted its file holds the text and the changed flag it would compute
\* running alone, whatever the other workers have done meanwhile; and when
\* the process has exited had_change is the disjunction of these flags over
\* the calls that succeeded, so that it does not depend on the interleaving
\* or on the order in which the workers finished.
ConcurrentIndependence ==
  (Distinct(pony_files) /\ main_pc /= "start" /\ ~Bailed) =>
    /\ \A i \in DOMAIN tasks :
         Loaded(tasks[i]) =>
           /\ tasks[i].content = fs0[tasks[i].path]
           /\ tasks[i].formatted = AloneFormatted(tasks[i].path)
           /\ tasks[i].changed = AloneChanged(tasks[i].path)
    /\ main_pc = "exited" =>
         /\ had_change = (\E i \in DOMAIN tasks :
                            Succeeded(tasks[i]) /\ AloneChanged(tasks[i].path))
         /\ exit_code = IF opts.mode = "Check" /\ had_change THEN 1 ELSE 0

\* Two distinct files, the second worker printing before the first.
ConcurrentIndependenceWitness ==
  /\ main_pc = "exited"
  /\ Len(pony_files) = 2
  /\ Distinct(pony_files)
  /\ Len(stdout) = 4
  /\ stdout[1].by = 2 /\ stdout[2].by = 1 /\ stdout[3].by = 2
  /\ tasks[1].changed /\ ~tasks[2].changed

-----------------------------------------------------------------------------
(* Bodies of methods, constructors and behaviors.                          *)

\* A call on one line whose text is 15 + Len(str) bytes long.
CallWith(str) ==
  Node("call_expression",
    <<Leaf("member_expression", <<"env.out.print">>),
      Args(<<Tok("("), Str(str), Tok(")")>>)>>)
\* 49 and 50 bytes: just under and at the limit of the method arm.
Call49 == CallWith("\"0123456789012345678901234567890_\"")
Call50 == CallWith("\"0123456789012345678901234567890__\"")

MaxBodies == 2
InlineBodies ==
  {Block(<<CallPrint>>, <<NL>>), Block(<<Call49>>, <<NL>>), Block(<<Call50>>, <<NL>>),
   Block(<<CallPrint, CallNested>>, <<NL>>)}
WithBody(member, g) == [member EXCEPT !.kids[Len(member.kids)].gap = g]
BodyMembers ==
  {WithBody(m, g) :
     m \in {Method(b) : b \in InlineBodies} \cup {Ctor(b) : b \in InlineBodies}
           \cup {Behavior(b) : b \in InlineBodies},
     g \in {<<SP>>, <<NL>>}}
BodyTrees ==
  {SourceFile(<<TypeDef("actor", "Main", Members(ms, <<NL>>))>>, <<NL>>) :
     ms \in SeqsUpTo(BodyMembers, MaxBodies) \ {<<>>}}

SpecBodies == InitWith(BodyTrees, WidthOpts) /\ [][Next]_vars

\* The k-th smallest element of a set of numbers.
Nth(S, k) == CHOOSE x \in S : Cardinality({y \in S : y < x}) = k - 1

\* The member's body is laid out as the claim says after the arrow at
\* position p of the text out: inline after one space when its trimmed
\* text is one line shorter than the limit, otherwise from the next line
\* on, one level deeper than the member (level 2 for a member of a type).
BodyLaidOut(member, out, p, w) ==
  LET trimmed == Trim(node_text(member.kids[Len(member.kids)]))
      short == LinesCount(trimmed) = 1 /\ ByteLen(trimmed) < InlineLimit
  IN  IF short
        THEN /\ p + 1 + Len(trimmed) <= Len(out)
             /\ SubSeq(out, p + 1, p + 1 + Len(trimmed)) = <<SP>> \o trimmed
        ELSE /\ p + 2 <= Len(out)
             /\ out[p + 1] = NL
             /\ LET q == Nth({r \in (p + 1)..Len(out) : ~IsWs(out[r])}, 1)
                IN  LineIndent(out, q) = 2 * w

\* C13: in the text returned for a type, the body of every method,
\* constructor and behavior is on the line of its arrow after exactly one
\* space when its trimmed text is a single line of fewer than 50 bytes, and
\* otherwise starts on the next line, indented one level more.
BodyInlining ==
  (Returned /\ tree \in BodyTrees) =>
    LET members == tree.kids[1].kids[3].kids
        out == result.text
        arrows == Occurrences(out, {"=>"})
    IN  /\ Cardinality(arrows) = Len(members)
        /\ \A k \in 1..Len(members) :
             BodyLaidOut(members[k], out, Nth(arrows, k), opts.indent_width)

-----------------------------------------------------------------------------
(* Separation of the top-level children.                                   *)

DeclKinds ==
  {"actor_definition", "class_definition", "trait_definition",
   "primitive_definition", "use_statement", "type_alias"}
CommentKinds == {"block_comment", "line_comment"}

\* An iteration of the source_file loop has just formatted last.node.
ChildFormatted == pc = "format" /\ child_idx >= 2

\* C14: a top-level declaration written while the output is non-empty
\* starts on a new line, and exactly one empty line lies between it and the
\* output before it unless that output ends with a block comment.
TopLevelSeparation ==
  (ChildFormatted /\ last.node.kind \in DeclKinds /\ last.before.output # <<>>) =>
    /\ TrailingNewlines(last.start.output) >= 1
    /\ Emitted # <<>> /\ Head(Emitted) # NL
    /\ (SiblingPair /\ PrevSibling.kind # "block_comment")
         => TrailingNewlines(last.start.output) = 2

\* C15: no empty line between two consecutive top-level children of the
\* same repeatable kind, nor between a comment and the comment before it:
\* the second starts on the line right after the one the first ends on.
SameRun(prev, cur) ==
  \/ prev = cur /\ prev \in {"use_statement", "primitive_definition", "type_alias",
                             "trait_definition"}
  \/ prev \in CommentKinds /\ cur \in CommentKinds

NoBlankInRuns ==
  (SiblingPair /\ SameRun(PrevSibling.kind, last.node.kind)) =>
    /\ TrailingNewlines(last.start.output) = 1
    /\ Emitted # <<>> /\ Head(Emitted) # NL

-----------------------------------------------------------------------------
(* Members of a type.                                                      *)

\* C16: in the text returned for a type, every member after the first
\* starts a fresh line: only spaces lie between the newline before it and
\* its first token, whatever the kinds of the members, a constructor
\* without body included.
MembersOnOwnLines ==
  (Returned /\ tree \in MemberTrees) =>
    LET out == result.text
        starts == Occurrences(out, MemberStarts)
    IN  /\ Cardinality(starts) = Len(tree.kids[1].kids[3].kids)
        /\ \A p \in starts : p # Nth(starts, 1) => LineIndent(out, p) >= 0

-----------------------------------------------------------------------------
(* ERROR regions: the recovery branches of the ERROR arm.                  *)

\* `if` then a line break: the text starts with `if` but not with "if ".
ErrIfBreak == Node("ERROR", <<Tok("if"), Gap(<<NL>>, Id("cond")), Gap(<<SP>>, Tok("then")),
                              Gap(<<NL>>, Id("body"))>>)
\* Content before the closing end.
ErrParenEnd == Node("ERROR", <<Tok(")"), Gap(<<NL>>, Tok("end"))>>)

ErrBodies ==
  {Block(<<ErrIfThen>>, <<NL>>), Block(<<ErrEnd>>, <<NL>>),
   Block(<<CallPrint, ErrIfOpen>>, <<NL>>)}
ErrTypes ==
  {TypeDef("class", "C", Members(<<Ctor(b), Field>>, <<NL>>)) : b \in ErrBodies}
    \cup {TypeDef("actor", "A",
            Members(<<Method(Block(<<CallPrint, ErrIfOpen>>, <<NL>>))>>, <<NL>>))}
IfErr == IfStmt(CondTrue, Block(<<ErrIfOpen>>, <<NL>>))

MaxErr == 2
ErrNodes ==
  {ErrIfThen, ErrIfOpen, ErrIfBreak, ErrEnd, ErrParenEnd, ErrOther, UseA, Primitive, IfErr}
    \cup ErrTypes
ErrTrees == {SourceFile(cs, <<NL>>) : cs \in SeqsUpTo(ErrNodes, MaxErr)}

SpecErr == InitWith(ErrTrees, WidthOpts) /\ [][Next]_vars

\* The iteration has just formatted an ERROR child.
ErrorFormatted == ChildFormatted /\ last.node.kind = "ERROR"
ErrText == node_text(last.node)
\* The text before and after the first `then` of t.
FirstThen(t) == Nth(Occurrences(t, {"then"}), 1)
BeforeThen(t) == Trim(SubSeq(t, 1, FirstThen(t) - 1))
AfterThen(t) == Trim(SubSeq(t, FirstThen(t) + 1, Len(t)))
\* The text written so far ends a line (or nothing has been written).
AtLineStart(out) == out = <<>> \/ out[Len(out)] = NL

StartsIfThen(t) == Len(t) >= 2 /\ t[1] = "if" /\ t[2] = SP /\ Contains(t, "then")
\* The level one below L, the level itself at 0 (where decrease_indent
\* leaves it).
Lower(L) == IF L > 0 THEN L - 1 ELSE 0

\* C17: an ERROR node whose text starts with `if` and a space and contains
\* `then` comes out as the trimmed text before the first `then` and ` then` on a
\* line of its own at the current level L, then, if anything follows the
\* `then`, that content on the next line at level L + 1; the level is L + 1
\* afterwards and no `end` is written.
UnterminatedIfRecovery ==
  (ErrorFormatted /\ StartsIfThen(ErrText)) =>
    LET L == last.before.indent_level
        w == opts.indent_width
    IN  /\ AtLineStart(last.start.output)
        /\ Emitted = Spaces(L * w) \o BeforeThen(ErrText) \o <<SP, "then", NL>>
                       \o (IF AfterThen(ErrText) # <<>>
                           THEN Spaces((L + 1) * w) \o AfterThen(ErrText) ELSE <<>>)
        /\ state.indent_level = L + 1
        /\ ~Contains(Emitted, "end")

\* C20: an ERROR node whose trimmed text is `end` or ends with `end` (and
\* which is not an unterminated conditional) comes out as the content
\* before the `end` (if any) ended by a newline, then `end` alone on a line
\* at the level decreased by one, then a newline; the level stays decreased.
ClosingEndRecovery ==
  (ErrorFormatted /\ ErrText # <<>> /\ ErrText[Len(ErrText)] = "end"
     /\ ~StartsIfThen(ErrText)) =>
    LET L == last.before.indent_level
        w == opts.indent_width
        content == Trim(SubSeq(ErrText, 1, Len(ErrText) - 1))
    IN  /\ state.indent_level = Lower(L)
        /\ \E pre \in {<<>>, content \o <<NL>>, Spaces(L * w) \o content \o <<NL>>} :
             /\ (content # <<>>) = (pre # <<>>)
             /\ Emitted = pre \o Spaces(Lower(L) * w) \o <<"end", NL>>
        /\ content = <<>> => AtLineStart(last.start.output)

\* C18: when an iteration of the source_file loop starts a top-level
\* declaration, indent_level is 0 and the declaration starts at column 0,
\* whatever children came before it.
IndentResetAtTopLevel ==
  (ChildFormatted /\ last.node.kind \in DeclKinds) =>
    /\ last.before.indent_level = 0
    /\ AtLineStart(last.start.output)
    /\ Emitted # <<>> /\ ~IsWs(Head(Emitted))

\* C19: the level after a top-level type or conditional has been formatted
\* is the level before it: the bodies of its methods, constructors and
\* behaviors, its members and its then-block leave the level as they found
\* it, whatever they contain.
BodyKinds == {"actor_definition", "class_definition", "trait_definition", "if_statement"}
ScopedIndentation ==
  (ChildFormatted /\ last.node.kind \in BodyKinds) =>
    state.indent_level = last.before.indent_level

\* The text ends with `end` (its trimmed form is `end` or ends with it).
EndsWithEnd(t) == t # <<>> /\ t[Len(t)] = "end"

\* C21: an ERROR node that is neither an unterminated conditional (text
\* starting with `if` and containing `then`) nor a closing `end` comes out
\* as its whole text, unchanged, on a line of its own at the current level,
\* ended by one newline; the level is unchanged.
FallbackRecovery ==
  (ErrorFormatted /\ ErrText # <<>> /\ ~EndsWithEnd(ErrText)
     /\ ~(Head(ErrText) = "if" /\ Contains(ErrText, "then"))) =>
    LET L == last.before.indent_level
        w == opts.indent_width
    IN  /\ AtLineStart(last.start.output)
        /\ Emitted = Spaces(L * w) \o ErrText \o <<NL>>
        /\ state.indent_level = L

\* C22: indent_level is never below zero in a run, no step of the walk
\* ends in an underflow, and a closing `end` region met at level 0 leaves
\* the level at 0.
IndentNeverNegative ==
  /\ pc # "panicked"
  /\ state.indent_level >= 0
  /\ last.before.indent_level >= 0
  /\ (ErrorFormatted /\ EndsWithEnd(ErrText) /\ last.before.indent_level = 0)
       => state.indent_level = 0

IndentNeverNegativeWitness ==
  /\ ErrorFormatted
  /\ ErrText = <<"end">>
  /\ last.before.indent_level = 0
  /\ state.indent_level = 0
  /\ Emitted = <<"end", NL>>

\* C23: on standard output every header line is directly followed by the
\* formatted text of the same call, and every formatted text directly
\* follows its header: nothing another worker printed stands between.
StdoutAtomicity ==
  /\ \A k \in DOMAIN stdout :
       stdout[k].what = "header" =>
         /\ k < Len(stdout) =>
              stdout[k + 1].what = "body" /\ stdout[k + 1].by = stdout[k].by
         /\ k = Len(stdout) => tasks[stdout[k].by].at = "print_body"
  /\ \A k \in DOMAIN stdout :
       stdout[k].what = "body" =>
         k > 1 /\ stdout[k - 1].what = "header" /\ stdout[k - 1].by = stdout[k].by

\* The calls of process_file on the file at path p that satisfy P.
CallsOn(p, P(_)) == {i \in DOMAIN tasks : tasks[i].path = p /\ P(tasks[i])}
Started(t) == t.at # "start"
Wrote(t) == t.wrote > 0

\* C24: whatever the path arguments, every collected file is read by at most
\* one call of process_file and written by at most one, and in Write mode,
\* once the process has exited, every file a call succeeded on holds the
\* formatting of the content it had when the process started.
SingleProcessing ==
  (main_pc # "start" /\ ~Bailed) =>
    /\ \A p \in PonyPaths :
         /\ Cardinality(CallsOn(p, Started)) <= 1
         /\ Cardinality(CallsOn(p, Wrote)) <= 1
    /\ (main_pc = "exited" /\ opts.mode = "Write") =>
         \A i \in DOMAIN tasks :
           Succeeded(tasks[i]) => fs[tasks[i].path] = AloneFormatted(tasks[i].path)

\* C25: in every state of a run current_line_has_content is set exactly when
\* the current output line holds something other than indentation, a line
\* without content holds nothing or the indentation of the current level
\* written once, and every line that received text started with the
\* indentation of the level at which the text was written.
LineStateConsistency ==
  LET line == CurrentLine(state.output)
      w == opts.indent_width
  IN  /\ state.current_line_has_content <=> (\E k \in DOMAIN line : line[k] # SP)
      /\ ~state.current_line_has_content =>
           line \in {<<>>, Spaces(state.indent_level * w)}
      /\ \A k \in DOMAIN state.line_starts :
           state.line_starts[k].col = state.line_starts[k].level * w

=============================================================================
